---------------------------- MODULE Spec2Model ----------------------------
(***************************************************************************)
(* A model of the sentiment-analysis wizard: DataInput (text parsing),     *)
(* SentimentAnalysis (the asynchronous classification run), the Index page *)
(* that wires them together, ResultsDashboard (its word list, its table of *)
(* results and the CSV export) and WordCloudComponent.                     *)
(*                                                                         *)
(* Strings are sequences of one-character strings, so that split, trim,    *)
(* toLowerCase and the regular-expression replacements are computed        *)
(* character by character as the code computes them.                       *)
(*                                                                         *)
(* Numbers are kept exact:                                                 *)
(*   - a number that may be a fraction is a record [num, den] standing for *)
(*     num/den: confidences, percentages, satisfactionScore (in tenths     *)
(*     over 10) and averageConfidence;                                     *)
(*   - NaN, the value of 0/0, is the record with den = 0.                  *)
(* Within the bounds used here every quotient the code compares against    *)
(* 0.6, 0.4 or rounds is far from a binary floating-point tie, so exact    *)
(* arithmetic and IEEE doubles agree.  Math.log is taken from a table in   *)
(* millionths (LogMicro).                                                  *)
(***************************************************************************)
EXTENDS Integers, Sequences, FiniteSets, TLC

(***************************************************************************)
(* Bounds of the model.                                                    *)
(***************************************************************************)
\* longest text typed into the textarea of the wizard, in lines
MaxLines == 2
\* longest text handed to processTextInput on its own, in lines
MaxTextLines == 4
\* number of distinct values Math.random() * 0.2 is sampled at
JitterSteps == 2
\* longest text handed to analyzeSentiment on its own, in words
MaxWords == 5
\* longest comment list handed to a stand-alone SentimentAnalysis component
MaxComments == 3
\* longest text handed to extractKeywords on its own, in pieces
MaxKeywordPieces == 4
\* longest text pasted into the textarea as a whole, in lines
MaxPastedLines == 4
\* longest comment list behind the results shown on the dashboard
MaxDashboardComments == 3
\* longest word list handed to a stand-alone WordCloudComponent
MaxListWords == 3
\* largest frequency of a word of such a list
MaxFrequency == 4
\* longest result list shown in the table of ResultsDashboard
MaxTableRows == 3

(***************************************************************************)
(* Characters and the JavaScript string primitives the code uses.          *)
(***************************************************************************)
NL == "\n"

\* JavaScript white space (\s and String.prototype.trim), as far as the
\* inputs of the model contain it
WhiteSpace == {" ", "\t", "\r", NL}

LowerLetters ==
    <<"a","b","c","d","e","f","g","h","i","j","k","l","m",
      "n","o","p","q","r","s","t","u","v","w","x","y","z">>

UpperLetters ==
    <<"A","B","C","D","E","F","G","H","I","J","K","L","M",
      "N","O","P","Q","R","S","T","U","V","W","X","Y","Z">>

Digits == <<"0","1","2","3","4","5","6","7","8","9">>

Range(s) == {s[i] : i \in DOMAIN s}

\* the class \w of a JavaScript regular expression: [A-Za-z0-9_]
WordChars == Range(LowerLetters) \cup Range(UpperLetters) \cup Range(Digits) \cup {"_"}

\* String.prototype.toLowerCase, one character
LowerChar(c) ==
    IF c \in Range(UpperLetters)
    THEN LowerLetters[CHOOSE i \in DOMAIN UpperLetters : UpperLetters[i] = c]
    ELSE c

\* String.prototype.toLowerCase
ToLowerCase(s) == [i \in DOMAIN s |-> LowerChar(s[i])]

\* String.prototype.trim
Trim(s) ==
    LET keep == {i \in DOMAIN s : s[i] \notin WhiteSpace}
    IN  IF keep = {} THEN <<>>
        ELSE LET lo == CHOOSE i \in keep : \A j \in keep : i <= j
                 hi == CHOOSE i \in keep : \A j \in keep : j <= i
             IN  SubSeq(s, lo, hi)

\* String.prototype.split(sep) for a one-character separator: the pieces
\* between the separators, empty pieces included
RECURSIVE SplitOn(_, _)
SplitOn(s, sep) ==
    LET at == {i \in DOMAIN s : s[i] = sep}
    IN  IF at = {} THEN <<s>>
        ELSE LET k == CHOOSE i \in at : \A j \in at : i <= j
             IN  <<SubSeq(s, 1, k - 1)>> \o SplitOn(SubSeq(s, k + 1, Len(s)), sep)

\* String.prototype.split(/\s+/): the pieces between maximal runs of white
\* space; a text that starts (ends) with white space yields a leading
\* (trailing) empty piece, and the empty text yields one empty piece
RECURSIVE SplitWhiteSpace(_)
SplitWhiteSpace(s) ==
    LET at == {i \in DOMAIN s : s[i] \in WhiteSpace}
    IN  IF at = {} THEN <<s>>
        ELSE LET k    == CHOOSE i \in at : \A j \in at : i <= j
                 rest == {i \in DOMAIN s : i > k /\ s[i] \notin WhiteSpace}
                 next == IF rest = {} THEN Len(s) + 1
                         ELSE CHOOSE i \in rest : \A j \in rest : i <= j
             IN  <<SubSeq(s, 1, k - 1)>> \o SplitWhiteSpace(SubSeq(s, next, Len(s)))

\* Array.prototype.join(sep) for a one-character separator
RECURSIVE Join(_, _)
Join(parts, sep) ==
    IF parts = <<>> THEN <<>>
    ELSE IF Len(parts) = 1 THEN parts[1]
    ELSE parts[1] \o <<sep>> \o Join(Tail(parts), sep)

\* a deduplication that keeps the last occurrence of each element instead of
\* the first
RECURSIVE DedupeKeepingLast(_)
DedupeKeepingLast(xs) ==
    IF xs = <<>> THEN <<>>
    ELSE LET back == DedupeKeepingLast(Tail(xs))
         IN  IF Head(xs) \in Range(back) THEN back ELSE <<Head(xs)>> \o back

\* a deduplication that only drops a comment equal to the one just before it
RECURSIVE DedupeAdjacent(_)
DedupeAdjacent(xs) ==
    IF Len(xs) <= 1 THEN xs
    ELSE IF xs[1] = xs[2] THEN DedupeAdjacent(Tail(xs))
    ELSE <<xs[1]>> \o DedupeAdjacent(Tail(xs))

\* [...new Set(xs)]: the distinct elements in order of first insertion
RECURSIVE Dedupe(_)
Dedupe(xs) ==
    IF xs = <<>> THEN <<>>
    ELSE LET front == Dedupe(SubSeq(xs, 1, Len(xs) - 1))
             last  == xs[Len(xs)]
         IN  IF last \in Range(front) THEN front ELSE Append(front, last)

(***************************************************************************)
(* Exact fractions.                                                        *)
(***************************************************************************)
Frac(n, d) == [num |-> n, den |-> d]

\* NaN: what 0 / 0 evaluates to
NaN == Frac(0, 0)

IsNaN(x) == x.den = 0

\* JavaScript's null and undefined
null == [null |-> TRUE]

undefined == [undefined |-> TRUE]

RECURSIVE Gcd(_, _)
Gcd(a, b) == IF b = 0 THEN a ELSE Gcd(b, a % b)

\* the same number in lowest terms
Reduced(x) ==
    IF x.den = 0 THEN x
    ELSE LET g == Gcd(x.num, x.den) IN Frac(x.num \div g, x.den \div g)

\* a + b, in lowest terms so that sums of many fractions stay small
FracAdd(a, b) ==
    LET x == Reduced(a)
        y == Reduced(b)
    IN  Reduced(Frac(x.num * y.den + y.num * x.den, x.den * y.den))

FracLeq(a, b) == a.num * b.den <= b.num * a.den

\* Math.round of the fraction n / d, d > 0: halves round up
RoundHalfUp(n, d) == (2 * n + d) \div (2 * d)

(***************************************************************************)
(* DataInput.processTextInput                                              *)
(***************************************************************************)
\* line.length <= 3 || line.split(/\s+/).length === 1
IsSingleTokenLine(line) == Len(line) <= 3 \/ Len(SplitWhiteSpace(line)) = 1

\* the warning raised from 40 percent on instead of above 40 percent
SingleTokenWarningFrom40(count, length) == count * 100 >= 40 * length

\* singleTokenPercentage > 40, with singleTokenPercentage = (count / length) * 100
SingleTokenWarning(count, length) == count * 100 > 40 * length

\* the lines without the filter that drops the empty ones
TrimmedLinesUnfiltered(text) ==
    LET raw == SplitOn(text, NL)
    IN  [k \in DOMAIN raw |-> Trim(raw[k])]

\* text.split('\n').map(line => line.trim()).filter(line => line.length > 0)
TrimmedLines(text) ==
    LET raw == SplitOn(text, NL)
    IN  SelectSeq([k \in DOMAIN raw |-> Trim(raw[k])], LAMBDA line : Len(line) > 0)

\* processTextInput returning the deduplicated lines as comments
ProcessTextInputDeduplicated(text) ==
    LET lines            == TrimmedLines(text)
        singleTokenLines == SelectSeq(lines, IsSingleTokenLine)
        uniqueComments   == Dedupe(lines)
    IN  IF Len(lines) = 0
        THEN [threw |-> TRUE, message |-> "No valid comments found in input"]
        ELSE [threw                 |-> FALSE,
              comments              |-> uniqueComments,
              rawCount              |-> Len(lines),
              uniqueCount           |-> Len(uniqueComments),
              duplicateCount        |-> Len(lines) - Len(uniqueComments),
              singleTokenWarning    |-> SingleTokenWarning(Len(singleTokenLines), Len(lines)),
              singleTokenPercentage |-> Frac(Len(singleTokenLines) * 100, Len(lines))]

\* The value processTextInput returns, or the error it throws.
\* singleTokenPercentage is the exact fraction (count / lines) * 100.
ProcessTextInput(text) ==
    LET lines            == TrimmedLines(text)
        singleTokenLines == SelectSeq(lines, IsSingleTokenLine)
        uniqueComments   == Dedupe(lines)
    IN  IF Len(lines) = 0
        THEN [threw |-> TRUE, message |-> "No valid comments found in input"]
        ELSE [threw                 |-> FALSE,
              comments              |-> lines,
              rawCount              |-> Len(lines),
              uniqueCount           |-> Len(uniqueComments),
              duplicateCount        |-> Len(lines) - Len(uniqueComments),
              singleTokenWarning    |-> SingleTokenWarning(Len(singleTokenLines), Len(lines)),
              singleTokenPercentage |-> Frac(Len(singleTokenLines) * 100, Len(lines))]

(***************************************************************************)
(* SentimentAnalysis.analyzeSentiment                                      *)
(***************************************************************************)
positiveWords ==
    { <<"g","o","o","d">>, <<"g","r","e","a","t">>, <<"e","x","c","e","l","l","e","n","t">>,
      <<"a","m","a","z","i","n","g">>, <<"w","o","n","d","e","r","f","u","l">>, <<"f","a","n","t","a","s","t","i","c">>,
      <<"p","e","r","f","e","c","t">>, <<"l","o","v","e">>, <<"b","e","s","t">>,
      <<"a","w","e","s","o","m","e">>, <<"h","e","l","p","f","u","l">>, <<"p","r","o","f","e","s","s","i","o","n","a","l">>,
      <<"c","a","r","i","n","g">>, <<"e","f","f","i","c","i","e","n","t">>, <<"c","l","e","a","n">>,
      <<"f","r","i","e","n","d","l","y">>, <<"s","a","t","i","s","f","i","e","d">>, <<"p","l","e","a","s","e","d">>,
      <<"h","a","p","p","y">>, <<"o","u","t","s","t","a","n","d","i","n","g">>, <<"i","m","p","r","e","s","s","i","v","e">>,
      <<"q","u","a","l","i","t","y">>, <<"r","e","l","i","a","b","l","e">>, <<"c","o","m","f","o","r","t","a","b","l","e">>,
      <<"c","o","n","v","e","n","i","e","n","t">>, <<"s","m","o","o","t","h">>, <<"e","a","s","y">> }

negativeWords ==
    { <<"b","a","d">>, <<"t","e","r","r","i","b","l","e">>, <<"a","w","f","u","l">>,
      <<"h","o","r","r","i","b","l","e">>, <<"w","o","r","s","t">>, <<"h","a","t","e">>,
      <<"d","i","s","a","p","p","o","i","n","t","i","n","g">>, <<"p","o","o","r">>, <<"i","n","a","d","e","q","u","a","t","e">>,
      <<"f","r","u","s","t","r","a","t","i","n","g">>, <<"a","n","n","o","y","i","n","g">>, <<"s","l","o","w">>,
      <<"e","x","p","e","n","s","i","v","e">>, <<"d","i","f","f","i","c","u","l","t">>, <<"c","o","m","p","l","i","c","a","t","e","d">>,
      <<"c","o","n","f","u","s","i","n","g">>, <<"u","n","c","l","e","a","r">>, <<"u","n","p","r","o","f","e","s","s","i","o","n","a","l">>,
      <<"r","u","d","e">>, <<"u","n","h","e","l","p","f","u","l">>, <<"b","r","o","k","e","n">>,
      <<"f","a","i","l","e","d">>, <<"p","r","o","b","l","e","m">>, <<"i","s","s","u","e">>,
      <<"c","o","m","p","l","a","i","n","t">>, <<"c","o","n","c","e","r","n">> }

\* word.replace(/[^\w]/g, '')
CleanWord(word) == SelectSeq(word, LAMBDA c : c \in WordChars)

\* text.toLowerCase().split(/\s+/)
SentimentWords(text) == SplitWhiteSpace(ToLowerCase(text))

\* the number of words whose cleaned form is in the lexicon
LexiconHits(text, lexicon) ==
    Len(SelectSeq(SentimentWords(text), LAMBDA word : CleanWord(word) \in lexicon))

\* the values Math.random() * 0.2 is sampled at, in thousandths: 0 .. 199
JitterValues == {(k * 199) \div (JitterSteps - 1) : k \in 0..(JitterSteps - 1)}

\* analyzeSentiment with the thresholds included: >= 0.6 and <= 0.4
AnalyzeSentimentInclusive(text, jitter) ==
    LET positiveScore == LexiconHits(text, positiveWords)
        negativeScore == LexiconHits(text, negativeWords)
        total         == positiveScore + negativeScore
    IN  IF total = 0
        THEN [sentiment |-> "neutral", confidence |-> Frac(600 + jitter, 1000)]
        ELSE IF positiveScore * 10 >= 6 * total
        THEN [sentiment  |-> "positive",
              confidence |-> Frac(7 * total + 3 * positiveScore, 10 * total)]
        ELSE IF positiveScore * 10 <= 4 * total
        THEN [sentiment  |-> "negative",
              confidence |-> Frac(7 * total + 3 * (total - positiveScore), 10 * total)]
        ELSE [sentiment |-> "neutral", confidence |-> Frac(600 + jitter, 1000)]

\* analyzeSentiment testing positiveScore === 0 where it tests total === 0
AnalyzeSentimentNoPositive(text, jitter) ==
    LET positiveScore == LexiconHits(text, positiveWords)
        negativeScore == LexiconHits(text, negativeWords)
        total         == positiveScore + negativeScore
    IN  IF positiveScore = 0
        THEN [sentiment |-> "neutral", confidence |-> Frac(600 + jitter, 1000)]
        ELSE IF positiveScore * 10 > 6 * total
        THEN [sentiment  |-> "positive",
              confidence |-> Frac(7 * total + 3 * positiveScore, 10 * total)]
        ELSE IF positiveScore * 10 < 4 * total
        THEN [sentiment  |-> "negative",
              confidence |-> Frac(7 * total + 3 * (total - positiveScore), 10 * total)]
        ELSE [sentiment |-> "neutral", confidence |-> Frac(600 + jitter, 1000)]

\* analyzeSentiment with the confidence of a negative result computed from
\* positiveRatio instead of 1 - positiveRatio
AnalyzeSentimentSharedRatio(text, jitter) ==
    LET positiveScore == LexiconHits(text, positiveWords)
        negativeScore == LexiconHits(text, negativeWords)
        total         == positiveScore + negativeScore
    IN  IF total = 0
        THEN [sentiment |-> "neutral", confidence |-> Frac(600 + jitter, 1000)]
        ELSE IF positiveScore * 10 > 6 * total
        THEN [sentiment  |-> "positive",
              confidence |-> Frac(7 * total + 3 * positiveScore, 10 * total)]
        ELSE IF positiveScore * 10 < 4 * total
        THEN [sentiment  |-> "negative",
              confidence |-> Frac(7 * total + 3 * positiveScore, 10 * total)]
        ELSE [sentiment |-> "neutral", confidence |-> Frac(600 + jitter, 1000)]

\* jitter is the value of Math.random() * 0.2 in thousandths
AnalyzeSentiment(text, jitter) ==
    LET positiveScore == LexiconHits(text, positiveWords)
        negativeScore == LexiconHits(text, negativeWords)
        total         == positiveScore + negativeScore
    IN  IF total = 0
        THEN [sentiment |-> "neutral", confidence |-> Frac(600 + jitter, 1000)]
        ELSE IF positiveScore * 10 > 6 * total
        THEN [sentiment  |-> "positive",
              confidence |-> Frac(7 * total + 3 * positiveScore, 10 * total)]
        ELSE IF positiveScore * 10 < 4 * total
        THEN [sentiment  |-> "negative",
              confidence |-> Frac(7 * total + 3 * (total - positiveScore), 10 * total)]
        ELSE [sentiment |-> "neutral", confidence |-> Frac(600 + jitter, 1000)]

(***************************************************************************)
(* SentimentAnalysis.extractKeywords                                       *)
(***************************************************************************)
stopWords ==
    { <<"t","h","e">>, <<"a">>, <<"a","n">>, <<"a","n","d">>, <<"o","r">>,
      <<"b","u","t">>, <<"i","n">>, <<"o","n">>, <<"a","t">>, <<"t","o">>,
      <<"f","o","r">>, <<"o","f">>, <<"w","i","t","h">>, <<"b","y">>, <<"i","s">>,
      <<"a","r","e">>, <<"w","a","s">>, <<"w","e","r","e">>, <<"b","e">>, <<"b","e","e","n">>,
      <<"h","a","v","e">>, <<"h","a","s">>, <<"h","a","d">>, <<"d","o">>, <<"d","o","e","s">>,
      <<"d","i","d">>, <<"w","i","l","l">>, <<"w","o","u","l","d">>, <<"c","o","u","l","d">>, <<"s","h","o","u","l","d">>,
      <<"m","a","y">>, <<"m","i","g","h","t">>, <<"c","a","n">>, <<"t","h","i","s">>, <<"t","h","a","t">>,
      <<"t","h","e","s","e">>, <<"t","h","o","s","e">>, <<"i">>, <<"y","o","u">>, <<"h","e">>,
      <<"s","h","e">>, <<"i","t">>, <<"w","e">>, <<"t","h","e","y">>, <<"m","e">>,
      <<"h","i","m">>, <<"h","e","r">>, <<"u","s">>, <<"t","h","e","m">> }

\* text.toLowerCase().replace(/[^\w\s]/g, ' ').split(/\s+/)
\*     .filter(word => word.length > 2 && !stopWords.has(word))
KeywordTokens(text) ==
    LET lower   == ToLowerCase(text)
        spaced  == [k \in DOMAIN lower |->
                      IF lower[k] \in WordChars \cup WhiteSpace THEN lower[k] ELSE " "]
    IN  SelectSeq(SplitWhiteSpace(spaced),
                  LAMBDA word : Len(word) > 2 /\ word \notin stopWords)

DigitValue(c) == (CHOOSE k \in DOMAIN Digits : Digits[k] = c) - 1

\* a < b for two canonical decimal numerals (no leading zero)
NumeralLess(a, b) ==
    \/ Len(a) < Len(b)
    \/ /\ Len(a) = Len(b)
       /\ \E k \in DOMAIN a :
            /\ DigitValue(a[k]) < DigitValue(b[k])
            /\ \A j \in 1..(k - 1) : a[j] = b[j]

\* 2^32 - 1: array indices are the integers below it
MaxArrayLength == <<"4","2","9","4","9","6","7","2","9","5">>

\* a property key that is a canonical array index: object keys of this form
\* are enumerated first, in ascending numeric order
IsArrayIndex(word) ==
    /\ Len(word) > 0
    /\ \A k \in DOMAIN word : word[k] \in Range(Digits)
    /\ (Len(word) > 1 => word[1] # "0")
    /\ NumeralLess(word, MaxArrayLength)

RECURSIVE SortNumerals(_)
SortNumerals(keys) ==
    IF keys = {} THEN <<>>
    ELSE LET least == CHOOSE w \in keys : \A v \in keys \ {w} : NumeralLess(w, v)
         IN  <<least>> \o SortNumerals(keys \ {least})

\* The frequency record is a plain object ({}), so two words meet properties
\* it inherits from Object.prototype instead of finding undefined:
\*   "__proto__"    reads as Object.prototype; the assignment of the string
\*                  "[object Object]1" to it is ignored, no key is created;
\*   "constructor"  reads as the function Object; (Object || 0) + 1 is the
\*                  string InheritedText followed by "1", and each further
\*                  occurrence appends another "1".
\* The other inherited names have capital letters (toString, valueOf, ...)
\* and never equal a lower-cased token.
ProtoKey == <<"_","_","p","r","o","t","o","_","_">>

ConstructorKey == <<"c","o","n","s","t","r","u","c","t","o","r">>

\* String(Object)
InheritedText ==
    <<"f","u","n","c","t","i","o","n"," ","O","b","j","e","c","t","(",")"," ",
      "{"," ","[","n","a","t","i","v","e"," ","c","o","d","e","]"," ","}">>

\* the order in which Object.entries lists the keys of the frequency record
\* built from the token stream
ObjectKeys(tokens) ==
    LET distinct == Dedupe(SelectSeq(tokens, LAMBDA w : w # ProtoKey))
    IN  SortNumerals({w \in Range(distinct) : IsArrayIndex(w)})
        \o SelectSeq(distinct, LAMBDA w : ~IsArrayIndex(w))

Occurrences(tokens, word) == Cardinality({k \in DOMAIN tokens : tokens[k] = word})

\* the value stored under a key is a string, not a number
HasStringValue(word) == word = ConstructorKey

\* the value the frequency record holds under a key once the token stream
\* has been counted
FrequencyValue(tokens, word) ==
    IF HasStringValue(word)
    THEN [string |-> InheritedText \o [k \in 1..Occurrences(tokens, word) |-> "1"]]
    ELSE [number |-> Occurrences(tokens, word)]

\* the comparator (a, b) => b - a is positive: b - a is NaN, which sort
\* takes as 0, as soon as one of the two values is a string
ComesAfter(a, b, tokens) ==
    /\ ~HasStringValue(a)
    /\ ~HasStringValue(b)
    /\ Occurrences(tokens, b) > Occurrences(tokens, a)

\* entries.sort(...): a stable sort, here by insertion.  With a string
\* value among numbers that differ the comparator is not consistent and the
\* language leaves the order to the implementation.
RECURSIVE InsertByCount(_, _, _)
InsertByCount(sorted, key, tokens) ==
    IF sorted = <<>> THEN <<key>>
    ELSE IF ComesAfter(sorted[Len(sorted)], key, tokens)
    THEN Append(InsertByCount(SubSeq(sorted, 1, Len(sorted) - 1), key, tokens),
                sorted[Len(sorted)])
    ELSE Append(sorted, key)

RECURSIVE SortByCount(_, _)
SortByCount(keys, tokens) ==
    IF keys = <<>> THEN <<>>
    ELSE InsertByCount(SortByCount(SubSeq(keys, 1, Len(keys) - 1), tokens),
                       keys[Len(keys)], tokens)

\* every comparison the sort can make agrees with one order of the entries
ComparatorConsistent(keys, tokens) ==
    \/ \A w \in Range(keys) : ~HasStringValue(w)
    \/ \A v, w \in Range(keys) :
           (~HasStringValue(v) /\ ~HasStringValue(w)) =>
               Occurrences(tokens, v) = Occurrences(tokens, w)

\* extractKeywords without .slice(0, 5)
ExtractKeywordsUnsliced(text) ==
    LET tokens == KeywordTokens(text)
    IN  SortByCount(ObjectKeys(tokens), tokens)

ExtractKeywords(text) ==
    LET tokens == KeywordTokens(text)
        sorted == SortByCount(ObjectKeys(tokens), tokens)
    IN  SubSeq(sorted, 1, IF Len(sorted) < 5 THEN Len(sorted) ELSE 5)

(***************************************************************************)
(* SentimentAnalysis: the aggregation at the end of runAnalysis            *)
(***************************************************************************)
\* results.filter(r => r.sentiment === label).length
CountSentiment(results, label) ==
    Len(SelectSeq(results, LAMBDA r : r.sentiment = label))

\* the score with a neutral result weighted 1 instead of 0.5
SatisfactionScoreNeutralFull(sentimentCounts, length) ==
    IF length = 0 THEN NaN
    ELSE Frac(((2 * sentimentCounts.positive + 2 * sentimentCounts.neutral) * 1000 + length)
                  \div (2 * length),
              10)

\* the score with Math.floor in place of Math.round
SatisfactionScoreFloor(sentimentCounts, length) ==
    IF length = 0 THEN NaN
    ELSE Frac(((2 * sentimentCounts.positive + sentimentCounts.neutral) * 1000)
                  \div (2 * length),
              10)

\* Math.round(((positive + 0.5 * neutral) / length) * 100 * 10) / 10;
\* Math.round rounds a half upwards, and Math.round(NaN) is NaN
SatisfactionScore(sentimentCounts, length) ==
    IF length = 0 THEN NaN
    ELSE Frac(((2 * sentimentCounts.positive + sentimentCounts.neutral) * 1000 + length)
                  \div (2 * length),
              10)

\* results.reduce((sum, r) => sum + r.confidence, 0)
RECURSIVE SumConfidence(_)
SumConfidence(results) ==
    IF results = <<>> THEN Frac(0, 1)
    ELSE FracAdd(SumConfidence(SubSeq(results, 1, Len(results) - 1)),
                 results[Len(results)].confidence)

AverageConfidence(results) ==
    IF Len(results) = 0 THEN NaN
    ELSE LET sum == SumConfidence(results)
         IN  Frac(sum.num, sum.den * Len(results))

modelOptions == <<[id |-> "cloud-api", name |-> "Cloud API"]>>

\* modelOptions.find(m => m.id === selectedModel)
SelectedModelInfo(model) ==
    IF \E k \in DOMAIN modelOptions : modelOptions[k].id = model
    THEN modelOptions[CHOOSE k \in DOMAIN modelOptions : modelOptions[k].id = model]
    ELSE undefined

\* selectedModelInfo?.name || "Unknown"
ModelUsed(info) == IF info = undefined THEN "Unknown" ELSE info.name

\* the AnalysisResults object with uniqueComments taken from comments.length
BuildAnalysisResultsRawUnique(comments, unique, results, info) ==
    LET sentimentCounts ==
            [positive |-> CountSentiment(results, "positive"),
             negative |-> CountSentiment(results, "negative"),
             neutral  |-> CountSentiment(results, "neutral")]
    IN  [results           |-> results,
         totalComments     |-> Len(comments),
         uniqueComments    |-> Len(comments),
         duplicatesIgnored |-> Len(comments) - Len(unique),
         sentimentCounts   |-> sentimentCounts,
         satisfactionScore |-> SatisfactionScore(sentimentCounts, Len(results)),
         averageConfidence |-> AverageConfidence(results),
         modelUsed         |-> ModelUsed(info)]

\* the AnalysisResults object runAnalysis builds once its loop has ended
\* (jobId and timestamp, which read the clock, are left out)
BuildAnalysisResults(comments, unique, results, info) ==
    LET sentimentCounts ==
            [positive |-> CountSentiment(results, "positive"),
             negative |-> CountSentiment(results, "negative"),
             neutral  |-> CountSentiment(results, "neutral")]
    IN  [results           |-> results,
         totalComments     |-> Len(comments),
         uniqueComments    |-> Len(unique),
         duplicatesIgnored |-> Len(comments) - Len(unique),
         sentimentCounts   |-> sentimentCounts,
         satisfactionScore |-> SatisfactionScore(sentimentCounts, Len(results)),
         averageConfidence |-> AverageConfidence(results),
         modelUsed         |-> ModelUsed(info)]

(***************************************************************************)
(* ResultsDashboard: the word list handed to the word cloud                *)
(***************************************************************************)
\* result.comment.toLowerCase().replace(/[^\w\s]/g, ' ').split(/\s+/)
\*     .filter(word => word.length > 3)
CommentWords(comment) ==
    LET lower   == ToLowerCase(comment)
        spaced  == [k \in DOMAIN lower |->
                      IF lower[k] \in WordChars \cup WhiteSpace THEN lower[k] ELSE " "]
    IN  SelectSeq(SplitWhiteSpace(spaced), LAMBDA word : Len(word) > 3)

\* the words in the order in which results.forEach counts them into
\* wordFrequency: of each result its keywords, then the words of its comment
RECURSIVE CountedWords(_)
CountedWords(rs) ==
    IF rs = <<>> THEN <<>>
    ELSE Head(rs).keywords \o CommentWords(Head(rs).comment) \o CountedWords(Tail(rs))

\* .slice(0, 100)
MaxCloudWords == 100

\* wordFrequency after results.forEach, as Object.entries lists it
WordFrequency(rs) ==
    LET counted == CountedWords(rs)
        keys    == ObjectKeys(counted)
    IN  [k \in DOMAIN keys |->
            [key |-> keys[k], value |-> FrequencyValue(counted, keys[k])]]

\* .map(([text, size]) => ({ text, size })) and .slice(0, 100) on the keys in
\* the order the sort left them in
CloudWords(sorted, counted) ==
    LET kept == IF Len(sorted) < MaxCloudWords THEN Len(sorted) ELSE MaxCloudWords
    IN  [k \in 1..kept |->
            [text |-> sorted[k],
             size |-> IF HasStringValue(sorted[k])
                      THEN FrequencyValue(counted, sorted[k])
                      ELSE Occurrences(counted, sorted[k])]]

\* Object.entries(wordFrequency).map(...).sort((a, b) => b.size - a.size)
\*     .slice(0, 100)
WordCloudData(rs) ==
    LET counted == CountedWords(rs)
    IN  CloudWords(SortByCount(ObjectKeys(counted), counted), counted)

\* the word lists the render can produce: the sorted one, or any order of the
\* entries where the comparator is not consistent
WordCloudOutcomes(rs) ==
    LET counted == CountedWords(rs)
        keys    == ObjectKeys(counted)
    IN  IF ComparatorConsistent(keys, counted)
        THEN {WordCloudData(rs)}
        ELSE {CloudWords(order, counted) :
                 order \in {p \in [DOMAIN keys -> Range(keys)] :
                               \A j, k \in DOMAIN keys : j # k => p[j] # p[k]}}

(***************************************************************************)
(* ResultsDashboard: the table of results and the CSV export               *)
(***************************************************************************)
\* String.prototype.includes
Includes(s, sub) ==
    \E k \in 0..(Len(s) - Len(sub)) : SubSeq(s, k + 1, k + Len(sub)) = sub

\* the objects held by results.results: every one was created by its own
\* results.push({...}) of runAnalysis, so two of them are the same object
\* exactly when they stand at the same place of that array
ResultObjects(rs) == [k \in DOMAIN rs |-> [ref |-> k, value |-> rs[k]]]

MatchesSearch(result, term) ==
    \/ Includes(ToLowerCase(result.comment), ToLowerCase(term))
    \/ \E k \in DOMAIN result.keywords :
         Includes(ToLowerCase(result.keywords[k]), ToLowerCase(term))

MatchesSentiment(result, filter) == filter = "all" \/ result.sentiment = filter

\* results.results.filter(...): a new array of the same objects
FilteredResults(rs, term, filter) ==
    SelectSeq(ResultObjects(rs),
              LAMBDA o : MatchesSearch(o.value, term) /\ MatchesSentiment(o.value, filter))

\* the three labels in the order localeCompare gives them
SentimentOrder == <<"negative", "neutral", "positive">>

SentimentRank(label) == CHOOSE k \in DOMAIN SentimentOrder : SentimentOrder[k] = label

\* the sign of a - b for two numbers given as fractions
SignOfDifference(a, b) ==
    IF a.num * b.den = b.num * a.den THEN 0
    ELSE IF a.num * b.den > b.num * a.den THEN 1 ELSE -1

\* the sign of the comparator of sortedResults
CompareResults(a, b, key) ==
    CASE key = "confidence" -> SignOfDifference(b.confidence, a.confidence)
      [] key = "sentiment"  ->
            IF SentimentRank(a.sentiment) = SentimentRank(b.sentiment) THEN 0
            ELSE IF SentimentRank(a.sentiment) < SentimentRank(b.sentiment) THEN -1 ELSE 1
      [] key = "length"     ->
            IF Len(b.comment) = Len(a.comment) THEN 0
            ELSE IF Len(b.comment) > Len(a.comment) THEN 1 ELSE -1
      [] OTHER              -> 0

\* Array.prototype.sort is stable: an object moves in front of those the
\* comparator puts after it and stays behind the others
RECURSIVE InsertResult(_, _, _)
InsertResult(sorted, object, key) ==
    IF sorted = <<>> THEN <<object>>
    ELSE IF CompareResults(sorted[Len(sorted)].value, object.value, key) > 0
    THEN Append(InsertResult(SubSeq(sorted, 1, Len(sorted) - 1), object, key),
                sorted[Len(sorted)])
    ELSE Append(sorted, object)

RECURSIVE SortResults(_, _)
SortResults(objects, key) ==
    IF objects = <<>> THEN <<>>
    ELSE InsertResult(SortResults(SubSeq(objects, 1, Len(objects) - 1), key),
                      objects[Len(objects)], key)

\* [...filteredResults].sort(...)
SortedResults(rs, term, filter, key) == SortResults(FilteredResults(rs, term, filter), key)

\* Array.prototype.indexOf on an array of objects, 0-based: the first place
\* holding the same object, or -1
IndexOf(objects, object) ==
    LET places == {k \in DOMAIN objects : objects[k].ref = object.ref}
    IN  IF places = {} THEN -1
        ELSE (CHOOSE k \in places : \A j \in places : k <= j) - 1

\* a table that numbers its rows by their place in the table
TableIdByRow(rs, rows, index) == index

\* the ID cell of the row at place index (1-based) of the table
TableId(rs, rows, index) == IndexOf(ResultObjects(rs), rows[index]) + 1

\* a natural number as a decimal numeral
RECURSIVE Numeral(_)
Numeral(n) ==
    IF n < 10 THEN <<Digits[n + 1]>>
    ELSE Append(Numeral(n \div 10), Digits[(n % 10) + 1])

\* Number.prototype.toFixed(3) of a number that is not negative
ToFixed3(x) ==
    LET thousandths == RoundHalfUp(x.num * 1000, x.den)
        fraction    == thousandths % 1000
    IN  Numeral(thousandths \div 1000) \o <<".">>
            \o <<Digits[(fraction \div 100) + 1],
                 Digits[((fraction \div 10) % 10) + 1],
                 Digits[(fraction % 10) + 1]>>

\* replace(/"/g, '""')
RECURSIVE DoubleQuotes(_)
DoubleQuotes(s) ==
    IF s = <<>> THEN <<>>
    ELSE (IF Head(s) = "\"" THEN <<"\"", "\"">> ELSE <<Head(s)>>) \o DoubleQuotes(Tail(s))

Quoted(s) == <<"\"">> \o s \o <<"\"">>

\* keywords.join(', ')
RECURSIVE JoinKeywords(_)
JoinKeywords(keywords) ==
    IF keywords = <<>> THEN <<>>
    ELSE IF Len(keywords) = 1 THEN keywords[1]
    ELSE keywords[1] \o <<",", " ">> \o JoinKeywords(Tail(keywords))

\* the characters of a sentiment label
LabelText(label) ==
    CASE label = "positive" -> <<"p","o","s","i","t","i","v","e">>
      [] label = "negative" -> <<"n","e","g","a","t","i","v","e">>
      [] label = "neutral"  -> <<"n","e","u","t","r","a","l">>

CsvHeader ==
    Join(<< <<"C","o","m","m","e","n","t"," ","I","D">>,
            <<"T","e","x","t">>,
            <<"S","e","n","t","i","m","e","n","t">>,
            <<"C","o","n","f","i","d","e","n","c","e">>,
            <<"K","e","y","w","o","r","d","s">> >>, ",")

\* one line of the CSV file: the result at place index (1-based here, so the
\* ID is index + 1 of the 0-based code)
CsvLine(result, index) ==
    Join(<< Numeral(index),
            Quoted(DoubleQuotes(result.comment)),
            LabelText(result.sentiment),
            ToFixed3(result.confidence),
            Quoted(JoinKeywords(result.keywords)) >>, ",")

\* csvContent of exportToCsv
CsvContent(rs) ==
    Join(<<CsvHeader>> \o [k \in DOMAIN rs |-> CsvLine(rs[k], k)], NL)

(***************************************************************************)
(* WordCloudComponent                                                      *)
(***************************************************************************)
\* Math.max and Math.min over the sizes of a non-empty word list (the effect
\* returns before them on an empty one)
MaxOf(xs) == CHOOSE m \in Range(xs) : \A x \in Range(xs) : x <= m

MinOf(xs) == CHOOSE m \in Range(xs) : \A x \in Range(xs) : m <= x

\* Math.max(10, Math.round(width * 0.018))
MinFontPx(width) ==
    LET rounded == RoundHalfUp(width * 18, 1000)
    IN  IF rounded > 10 THEN rounded ELSE 10

\* Math.max(minFontPx + 10, Math.round(width * 0.085))
MaxFontPx(width) ==
    LET rounded == RoundHalfUp(width * 85, 1000)
    IN  IF rounded > MinFontPx(width) + 10 THEN rounded ELSE MinFontPx(width) + 10

\* Math.max(8, Math.round(12 * width / 1024))
GridSize(width) ==
    LET rounded == RoundHalfUp(12 * width, 1024)
    IN  IF rounded > 8 THEN rounded ELSE 8

\* Math.log(n) in millionths for n = 1 .. 12, with log(a * b) = log(a) + log(b)
LogMicro ==
    <<0, 693147, 1098612, 1386294, 1609438, 1791759,
      1945910, 2079441, 2197224, 2302585, 2397895, 2484906>>

\* weightFactor giving the smallest font when all frequencies are equal
WeightFactorEqualAsMin(size, minFreq, maxFreq, minFontPx, maxFontPx) ==
    IF maxFreq = minFreq THEN minFontPx
    ELSE LET logMin == LogMicro[minFreq + 1]
             logMax == LogMicro[maxFreq + 1]
             logVal == LogMicro[size + 1]
         IN  RoundHalfUp(minFontPx * (logMax - logMin)
                             + (logVal - logMin) * (maxFontPx - minFontPx),
                         logMax - logMin)

\* options.weightFactor: Math.round(minFontPx + t * (maxFontPx - minFontPx))
\* with t = (logVal - logMin) / (logMax - logMin)
WeightFactor(size, minFreq, maxFreq, minFontPx, maxFontPx) ==
    IF maxFreq = minFreq THEN RoundHalfUp(minFontPx + maxFontPx, 2)
    ELSE LET logMin == LogMicro[minFreq + 1]
             logMax == LogMicro[maxFreq + 1]
             logVal == LogMicro[size + 1]
         IN  RoundHalfUp(minFontPx * (logMax - logMin)
                             + (logVal - logMin) * (maxFontPx - minFontPx),
                         logMax - logMin)

\* a component that takes every word list for a non-empty one
EmptyWordsUnchecked(words) == FALSE

\* words.length === 0
EmptyWords(words) == Len(words) = 0

(***************************************************************************)
(* Inputs of the model.                                                    *)
(***************************************************************************)
\* all sequences over S of length at most n
SeqsUpTo(S, n) == UNION {[1..k -> S] : k \in 0..n}

\* the lines a user types into the textarea
LineSamples ==
    { <<"g","o","o","d">>,
      <<" ","g","o","o","d"," ">>,
      <<"G","o","o","d">>,
      <<"b","a","d">>,
      <<"n","e","u","t","r","a","l"," ","c","o","m","m","e","n","t"," ","h","e","r","e">>,
      <<>> }

\* lines for the single-token share: three characters with a blank, one
\* word, several words
WarningSamples ==
    { <<"a"," ","b">>,
      <<"g","o","o","d">>,
      <<"n","e","u","t","r","a","l"," ","c","o","m","m","e","n","t"," ","h","e","r","e">> }

\* the pieces of the texts extractKeywords is applied to on its own: words,
\* numerals, a stop-word, a two-letter word, punctuation between words
KeywordSamples ==
    { <<"f","o","x">>,
      <<"2","0","2","4"," ","c","a","t","s">>,
      <<"T","h","e"," ","o","k">>,
      <<"d","o","g","s","-","b","i","r","d","s">>,
      <<"1","0","0"," ","f","i","s","h">> }

\* the lines of the texts pasted into the textarea as a whole
PastedSamples ==
    { <<"g","o","o","d">>,
      <<"b","a","d">>,
      <<"n","e","u","t","r","a","l"," ","c","o","m","m","e","n","t"," ","h","e","r","e">> }

\* the comments of the result sets shown on the dashboard
DashboardComments ==
    { <<"c","a","t","s">>,
      <<"2","0","2","4"," ","d","o","g","s">>,
      <<"f","o","x">>,
      <<"C","a","t","s",","," ","d","o","g","s","!">>,
      <<"1","0","0","0"," ","b","i","r","d","s">> }

\* the comments of the result sets shown in the table: two positive ones of
\* different confidence, a negative and a neutral one, of four lengths, one
\* with a comma and one with double quotes
TableComments ==
    { <<"g","o","o","d">>,
      <<"b","a","d">>,
      <<"G","o","o","d",","," ","g","o","o","d"," ","b","a","d">>,
      <<"a"," ","\"","f","i","n","e","\""," ","d","a","y">> }

\* the texts typed into the search box
SearchTerms ==
    { <<>>, <<"G","O","O","D">>, <<"d","a","y">> }

\* the items of the two Select boxes
SentimentFilters == {"all", "positive", "neutral", "negative"}

SortKeys == {"confidence", "sentiment", "length"}

\* the texts of the words of a word list, by position
WordNames ==
    << <<"c","a","t","s">>, <<"d","o","g","s">>, <<"b","i","r","d","s">>,
       <<"f","i","s","h">>, <<"2","0","2","4">> >>

\* the word lists a dashboard hands to WordCloudComponent: distinct texts,
\* sizes from 1 to MaxFrequency in descending order
WordLists ==
    {[k \in DOMAIN sizes |-> [text |-> WordNames[k], size |-> sizes[k]]] :
        sizes \in {s \in SeqsUpTo(1..MaxFrequency, MaxListWords) :
                      \A k \in 1..(Len(s) - 1) : s[k] >= s[k + 1]}}

\* width and height of the canvas: the defaults, two other sizes, and sizes
\* with no area (the props are plain numbers, nothing restricts them)
CanvasSizes == {<<800, 400>>, <<400, 200>>, <<1200, 600>>, <<0, 400>>, <<800, -1>>}

\* comments with the words that meet inherited properties of the frequency
\* record
FrequencyComments ==
    { <<"c","a","t","s">>,
      <<"c","o","n","s","t","r","u","c","t","o","r">>,
      <<"D","o","g","s"," ","c","o","n","s","t","r","u","c","t","o","r">>,
      <<"_","_","p","r","o","t","o","_","_"," ","c","a","t","s">>,
      <<"c","a","t","s"," ","d","o","g","s">> }

\* the words of the texts analyzeSentiment is applied to on its own
WordSamples ==
    { <<"G","r","e","a","t","!">>,
      <<"b","a","d">>,
      <<"f","o","x">> }

\* the comments a stand-alone SentimentAnalysis component is mounted with
CommentSamples ==
    { <<"g","o","o","d">>,
      <<"G","o","o","d">>,
      <<"b","a","d">>,
      <<"g","o","o","d"," ","b","a","d">>,
      <<"n","e","u","t","r","a","l"," ","c","o","m","m","e","n","t"," ","h","e","r","e">> }

(***************************************************************************)
(* State.                                                                  *)
(***************************************************************************)
VARIABLES
    \* DataInput
    textInput,            \* the content of the textarea
    inputParsedData,      \* DataInput's parsedData: null or a ParsedData
    treatAsSingleTokens,  \* the "Treat as keywords" switch
    \* Index
    appState,             \* "input", "analysis" or "results"
    parsedData,           \* Index's parsedData: null or a ParsedData
    analysisResults,      \* null or the AnalysisResults handed to Index
    \* SentimentAnalysis
    isAnalyzing,
    progress,             \* a percentage, as a fraction
    selectedModel,
    currentStep,
    \* the running call of runAnalysis
    pc,                   \* "idle", "sleeping" (50 ms timer), "completing" (500 ms timer)
    closure,              \* the comments and selectedModelInfo the call closed over
    uniqueComments,
    results,
    i,
    pending,              \* the analysisResults the 500 ms timer will deliver
    \* ResultsDashboard
    searchTerm,
    sentimentFilter,      \* "all", "positive", "neutral" or "negative"
    sortBy,               \* "confidence", "sentiment" or "length"
    download,             \* null or the CSV file handed to the browser
    \* sonner
    toast,                \* the last toast shown, or null
    \* a function of the program applied on its own
    argument,             \* the text it is applied to
    returned              \* null or the value it returned

dataInputVars == <<textInput, inputParsedData, treatAsSingleTokens>>
indexVars     == <<appState, parsedData, analysisResults>>
analysisVars  == <<isAnalyzing, progress, selectedModel, currentStep>>
runVars       == <<pc, closure, uniqueComments, results, i, pending>>
dashboardVars == <<searchTerm, sentimentFilter, sortBy, download>>
pureVars      == <<argument, returned>>
vars == <<dataInputVars, indexVars, analysisVars, runVars, dashboardVars, toast,
          pureVars>>

Toast(kind, text, count) == [kind |-> kind, text |-> text, count |-> count]

\* the state a component has when it is mounted (its useState initial values)
DataInputMounted ==
    /\ textInput = <<>>
    /\ inputParsedData = null
    /\ treatAsSingleTokens = FALSE

SentimentAnalysisMounted ==
    /\ isAnalyzing = FALSE
    /\ progress = Frac(0, 1)
    /\ selectedModel = "pattern-local"
    /\ currentStep = ""
    /\ pc = "idle"
    /\ closure = null
    /\ uniqueComments = <<>>
    /\ results = <<>>
    /\ i = 0
    /\ pending = null

ResultsDashboardMounted ==
    /\ searchTerm = <<>>
    /\ sentimentFilter = "all"
    /\ sortBy = "confidence"

\* a component that is unmounted loses its state; it is mounted again with
\* its initial values
RemountDataInput ==
    /\ textInput' = <<>>
    /\ inputParsedData' = null
    /\ treatAsSingleTokens' = FALSE

RemountSentimentAnalysis ==
    /\ isAnalyzing' = FALSE
    /\ progress' = Frac(0, 1)
    /\ selectedModel' = "pattern-local"
    /\ currentStep' = ""
    /\ pc' = "idle"
    /\ closure' = null
    /\ uniqueComments' = <<>>
    /\ results' = <<>>
    /\ i' = 0
    /\ pending' = null

RemountResultsDashboard ==
    /\ searchTerm' = <<>>
    /\ sentimentFilter' = "all"
    /\ sortBy' = "confidence"

PureIdle ==
    /\ argument = <<>>
    /\ returned = null

Init ==
    /\ appState = "input"
    /\ parsedData = null
    /\ analysisResults = null
    /\ DataInputMounted
    /\ SentimentAnalysisMounted
    /\ ResultsDashboardMounted
    /\ download = null
    /\ toast = null
    /\ PureIdle

(***************************************************************************)
(* DataInput                                                               *)
(***************************************************************************)
\* the lines typed so far: every line typed ends with the Enter key
LineCount(text) == Len(SplitOn(text, NL)) - 1

AppendLine(text, line) == text \o line \o <<NL>>

\* the values onChange delivers: the user clears the textarea or types one
\* more line, which may be empty, and Enter
Edits(text) ==
    {<<>>} \cup (IF LineCount(text) < MaxLines
                 THEN {AppendLine(text, line) : line \in LineSamples}
                 ELSE {})

\* onChange={(e) => setTextInput(e.target.value)}
SetTextInput ==
    /\ appState = "input"
    /\ \E value \in Edits(textInput) :
         /\ value # textInput
         /\ textInput' = value
    /\ UNCHANGED <<inputParsedData, treatAsSingleTokens, indexVars, analysisVars,
                   runVars, toast, pureVars>>
    /\ UNCHANGED dashboardVars

\* handleTextParse that resets the component's batch when the text is rejected
HandleTextParseResetting ==
    /\ appState = "input"
    /\ LET parsed == ProcessTextInput(textInput)
       IN  IF Trim(textInput) = <<>> \/ parsed.threw
           THEN /\ toast' = Toast("error", "Please enter some text to analyze", 0)
                /\ inputParsedData' = null
                /\ UNCHANGED parsedData
           ELSE /\ inputParsedData' = parsed
                /\ parsedData' = parsed
                /\ toast' = Toast("success", "Parsed comments successfully", parsed.rawCount)
    /\ UNCHANGED <<textInput, treatAsSingleTokens, appState, analysisResults,
                   analysisVars, runVars, pureVars>>
    /\ UNCHANGED dashboardVars

\* handleTextParse, with the demo switch off (useDemo keeps its initial value)
HandleTextParse ==
    /\ appState = "input"
    /\ LET parsed == ProcessTextInput(textInput)
       IN  IF Trim(textInput) = <<>>
           THEN /\ toast' = Toast("error", "Please enter some text to analyze", 0)
                /\ UNCHANGED <<inputParsedData, parsedData>>
           ELSE IF parsed.threw
           THEN /\ toast' = Toast("error", parsed.message, 0)
                /\ UNCHANGED <<inputParsedData, parsedData>>
           ELSE /\ inputParsedData' = parsed
                /\ parsedData' = parsed          \* onDataParsed: handleDataParsed
                /\ toast' = Toast("success", "Parsed comments successfully", parsed.rawCount)
    /\ UNCHANGED <<textInput, treatAsSingleTokens, appState, analysisResults,
                   analysisVars, runVars, pureVars>>
    /\ UNCHANGED dashboardVars

\* the "Treat as keywords" switch, rendered with the single-token warning
SetTreatAsSingleTokens ==
    /\ appState = "input"
    /\ inputParsedData # null
    /\ inputParsedData.singleTokenWarning
    /\ treatAsSingleTokens' = ~treatAsSingleTokens
    /\ UNCHANGED <<textInput, inputParsedData, indexVars, analysisVars, runVars,
                   toast, pureVars>>
    /\ UNCHANGED dashboardVars

\* handleConfirm, and Index.handleConfirmAnalysis which it calls: Index then
\* renders SentimentAnalysis in place of DataInput
HandleConfirm ==
    /\ appState = "input"
    /\ inputParsedData # null
    /\ LET finalData ==
               IF inputParsedData.singleTokenWarning /\ ~treatAsSingleTokens
               THEN [inputParsedData EXCEPT !.singleTokenWarning = FALSE]
               ELSE inputParsedData
       IN  parsedData' = finalData
    /\ appState' = "analysis"
    /\ toast' = Toast("success", "Analysis started!", 0)
    /\ RemountDataInput
    /\ UNCHANGED <<analysisResults, analysisVars, runVars, pureVars>>
    /\ UNCHANGED dashboardVars

(***************************************************************************)
(* SentimentAnalysis                                                       *)
(***************************************************************************)
\* comments={parsedData.comments}
Comments == parsedData.comments

\* onClick={() => setSelectedModel(model.id)}
SelectModel ==
    /\ appState = "analysis"
    /\ \E k \in DOMAIN modelOptions : selectedModel' = modelOptions[k].id
    /\ UNCHANGED <<dataInputVars, indexVars, isAnalyzing, progress, currentStep,
                   runVars, toast, pureVars>>
    /\ UNCHANGED dashboardVars

\* runAnalysis without its guard against an empty list
NoCommentsUnguarded(comments) == FALSE

\* if (comments.length === 0)
NoComments(comments) == Len(comments) = 0

\* a loop that stops after its first iteration
LoopDoneAfterFirst(index, unique) == index >= 1

\* the loop condition i < uniqueComments.length has become false
LoopDone(index, unique) == index >= Len(unique)

\* the end of runAnalysis without its setTimeout(..., 500): the results are
\* built and never delivered
FinishRunWithoutTimer(comments, info, unique, allResults) ==
    /\ pending' = BuildAnalysisResults(comments, unique, allResults, info)
    /\ currentStep' = "Analysis complete!"
    /\ progress' = Frac(100, 1)
    /\ toast' = Toast("success", "Analysis completed! Processed unique comments",
                      Len(allResults))
    /\ pc' = "idle"

\* runAnalysis from the end of its loop to its setTimeout(..., 500)
FinishRun(comments, info, unique, allResults) ==
    /\ pending' = BuildAnalysisResults(comments, unique, allResults, info)
    /\ currentStep' = "Analysis complete!"
    /\ progress' = Frac(100, 1)
    /\ toast' = Toast("success", "Analysis completed! Processed unique comments",
                      Len(allResults))
    /\ pc' = "completing"

\* runAnalysis behind a Start Analysis button that is never disabled
RunAnalysisNotDisabled ==
    /\ appState = "analysis"
    /\ parsedData # null
    /\ IF NoComments(Comments)
       THEN /\ toast' = Toast("error", "No comments to analyze", 0)
            /\ UNCHANGED <<analysisVars, runVars>>
       ELSE LET unique == Dedupe(Comments)
                info   == SelectedModelInfo(selectedModel)
            IN  /\ isAnalyzing' = TRUE
                /\ closure' = [comments |-> Comments, selectedModelInfo |-> info]
                /\ uniqueComments' = unique
                /\ results' = <<>>
                /\ i' = 0
                /\ UNCHANGED selectedModel
                /\ IF LoopDone(0, unique)
                   THEN FinishRun(Comments, info, unique, <<>>)
                   ELSE /\ progress' = Frac(0, 1)
                        /\ currentStep' = "Processing comments..."
                        /\ pc' = "sleeping"
                        /\ UNCHANGED <<pending, toast>>
    /\ UNCHANGED <<dataInputVars, indexVars, pureVars>>
    /\ UNCHANGED dashboardVars

\* runAnalysis, from the click on Start Analysis (disabled while isAnalyzing)
\* to its first await.  Nothing in the try block throws on a list of strings,
\* so the catch block is never entered.
RunAnalysis ==
    /\ appState = "analysis"
    /\ parsedData # null
    /\ ~isAnalyzing
    /\ IF NoComments(Comments)
       THEN /\ toast' = Toast("error", "No comments to analyze", 0)
            /\ UNCHANGED <<analysisVars, runVars>>
       ELSE LET unique == Dedupe(Comments)
                info   == SelectedModelInfo(selectedModel)
            IN  /\ isAnalyzing' = TRUE
                /\ closure' = [comments |-> Comments, selectedModelInfo |-> info]
                /\ uniqueComments' = unique
                /\ results' = <<>>
                /\ i' = 0
                /\ UNCHANGED selectedModel
                /\ IF LoopDone(0, unique)
                   THEN FinishRun(Comments, info, unique, <<>>)
                   ELSE /\ progress' = Frac(0, 1)
                        /\ currentStep' = "Processing comments..."
                        /\ pc' = "sleeping"
                        /\ UNCHANGED <<pending, toast>>
    /\ UNCHANGED <<dataInputVars, indexVars, pureVars>>
    /\ UNCHANGED dashboardVars

\* a loop whose last iteration reads the model selected at that moment, not
\* the one its closure was created with
LoopStepCurrentSelection ==
    /\ pc = "sleeping"
    /\ \E jitter \in JitterValues :
         LET comment    == uniqueComments[i + 1]
             classified == AnalyzeSentiment(comment, jitter)
             pushed     == Append(results,
                                  [comment    |-> comment,
                                   sentiment  |-> classified.sentiment,
                                   confidence |-> classified.confidence,
                                   keywords   |-> ExtractKeywords(comment)])
         IN  /\ results' = pushed
             /\ i' = i + 1
             /\ IF LoopDone(i + 1, uniqueComments)
                THEN FinishRun(closure.comments, SelectedModelInfo(selectedModel),
                               uniqueComments, pushed)
                ELSE /\ progress' = Frac((i + 1) * 100, Len(uniqueComments))
                     /\ UNCHANGED <<currentStep, pending, toast, pc>>
    /\ UNCHANGED <<dataInputVars, indexVars, isAnalyzing, selectedModel, closure,
                   uniqueComments, pureVars>>
    /\ UNCHANGED dashboardVars

\* one iteration of the loop: the 50 ms timer fires, the comment is classified
\* and pushed; after the last iteration the metrics are computed and the
\* 500 ms timer is set
LoopStep ==
    /\ pc = "sleeping"
    /\ \E jitter \in JitterValues :
         LET comment    == uniqueComments[i + 1]
             classified == AnalyzeSentiment(comment, jitter)
             pushed     == Append(results,
                                  [comment    |-> comment,
                                   sentiment  |-> classified.sentiment,
                                   confidence |-> classified.confidence,
                                   keywords   |-> ExtractKeywords(comment)])
         IN  /\ results' = pushed
             /\ i' = i + 1
             /\ IF LoopDone(i + 1, uniqueComments)
                THEN FinishRun(closure.comments, closure.selectedModelInfo,
                               uniqueComments, pushed)
                ELSE /\ progress' = Frac((i + 1) * 100, Len(uniqueComments))
                     /\ UNCHANGED <<currentStep, pending, toast, pc>>
    /\ UNCHANGED <<dataInputVars, indexVars, isAnalyzing, selectedModel, closure,
                   uniqueComments, pureVars>>
    /\ UNCHANGED dashboardVars

\* the 500 ms timer: onAnalysisComplete(analysisResults), which is
\* Index.handleAnalysisComplete, then setIsAnalyzing(false); Index now renders
\* ResultsDashboard in place of SentimentAnalysis
CompleteAnalysis ==
    /\ pc = "completing"
    /\ analysisResults' = pending
    /\ appState' = "results"
    /\ RemountSentimentAnalysis
    /\ UNCHANGED <<dataInputVars, parsedData, toast, pureVars>>
    /\ UNCHANGED dashboardVars

(***************************************************************************)
(* Index                                                                   *)
(***************************************************************************)
\* handleNewAnalysis that keeps the results of the analysis just shown
HandleNewAnalysisKeepingResults ==
    /\ appState = "results"
    /\ appState' = "input"
    /\ parsedData' = null
    /\ UNCHANGED <<analysisResults, dataInputVars, analysisVars, runVars, toast, pureVars>>
    /\ RemountResultsDashboard
    /\ UNCHANGED download

\* handleNewAnalysis (the onNewAnalysis of ResultsDashboard)
HandleNewAnalysis ==
    /\ appState = "results"
    /\ appState' = "input"
    /\ parsedData' = null
    /\ analysisResults' = null
    /\ UNCHANGED <<dataInputVars, analysisVars, runVars, toast, pureVars>>
    /\ RemountResultsDashboard
    /\ UNCHANGED download

Next ==
    \/ SetTextInput
    \/ HandleTextParse
    \/ SetTreatAsSingleTokens
    \/ HandleConfirm
    \/ SelectModel
    \/ RunAnalysis
    \/ LoopStep
    \/ CompleteAnalysis
    \/ HandleNewAnalysis

Spec == Init /\ [][Next]_vars

(***************************************************************************)
(* The wizard from a text pasted into the textarea as a whole: up to       *)
(* MaxPastedLines lines, parsed, confirmed, analysed and shown.            *)
(***************************************************************************)
PastedTexts == {Join(ls, NL) : ls \in SeqsUpTo(PastedSamples, MaxPastedLines)}

InitPasted ==
    /\ appState = "input"
    /\ parsedData = null
    /\ analysisResults = null
    /\ textInput \in PastedTexts
    /\ inputParsedData = null
    /\ treatAsSingleTokens = FALSE
    /\ SentimentAnalysisMounted
    /\ ResultsDashboardMounted
    /\ download = null
    /\ toast = null
    /\ PureIdle

NextPasted ==
    \/ HandleTextParse
    \/ SetTreatAsSingleTokens
    \/ HandleConfirm
    \/ SelectModel
    \/ RunAnalysis
    \/ LoopStep
    \/ CompleteAnalysis
    \/ HandleNewAnalysis

SpecPasted == InitPasted /\ [][NextPasted]_vars

(***************************************************************************)
(* The SentimentAnalysis component on its own: mounted by a parent with    *)
(* any list of comments, the empty list included.                          *)
(***************************************************************************)
InitMounted ==
    /\ appState = "analysis"
    /\ parsedData \in {[comments |-> cs] : cs \in SeqsUpTo(CommentSamples, MaxComments)}
    /\ analysisResults = null
    /\ DataInputMounted
    /\ SentimentAnalysisMounted
    /\ ResultsDashboardMounted
    /\ download = null
    /\ toast = null
    /\ PureIdle

NextMounted ==
    \/ SelectModel
    \/ RunAnalysis
    \/ LoopStep
    \/ CompleteAnalysis

SpecMounted == InitMounted /\ [][NextMounted]_vars

\* the 50 ms timer of the loop fires, seen on the loop counter: the steps of
\* NextMounted that satisfy it are the steps of LoopStep, and it is enabled
\* where LoopStep is, while a run sleeps in its loop
LoopTimerFires == pc = "sleeping" /\ i' = i + 1

\* SentimentAnalysis with its timers firing: a pending setTimeout callback of
\* the browser's event loop is eventually run, both the 50 ms timer of the
\* loop and the 500 ms timer that delivers the results
SpecMountedFair ==
    /\ SpecMounted
    /\ WF_i(LoopTimerFires)
    /\ WF_vars(CompleteAnalysis)

(***************************************************************************)
(* ResultsDashboard on its own: Index shows the results of an analysis of  *)
(* up to MaxDashboardComments comments.                                    *)
(***************************************************************************)
\* the results runAnalysis pushes for the unique comments, every jitter 0
Analysed(unique) ==
    [k \in DOMAIN unique |->
        LET classified == AnalyzeSentiment(unique[k], 0)
        IN  [comment    |-> unique[k],
             sentiment  |-> classified.sentiment,
             confidence |-> classified.confidence,
             keywords   |-> ExtractKeywords(unique[k])]]

InitDashboard ==
    /\ appState = "results"
    /\ parsedData \in {[comments |-> cs] :
                          cs \in SeqsUpTo(DashboardComments, MaxDashboardComments) \ {<<>>}}
    /\ analysisResults =
           BuildAnalysisResults(parsedData.comments, Dedupe(parsedData.comments),
                                Analysed(Dedupe(parsedData.comments)),
                                SelectedModelInfo("pattern-local"))
    /\ DataInputMounted
    /\ SentimentAnalysisMounted
    /\ ResultsDashboardMounted
    /\ download = null
    /\ toast = null
    /\ PureIdle

\* ResultsDashboard renders: wordFrequency is filled from results.results,
\* wordCloudData is computed from it and passed to WordCloudComponent
RenderDashboard ==
    /\ appState = "results"
    /\ returned = null
    /\ \E words \in WordCloudOutcomes(analysisResults.results) :
         returned' = [wordFrequency |-> WordFrequency(analysisResults.results),
                      wordCloudData |-> words]
    /\ UNCHANGED <<dataInputVars, indexVars, analysisVars, runVars, toast,
                   argument>>
    /\ UNCHANGED dashboardVars

NextDashboard ==
    \/ RenderDashboard
    \/ HandleNewAnalysis

SpecDashboard == InitDashboard /\ [][NextDashboard]_vars

(***************************************************************************)
(* ResultsDashboard with its table: a result set is shown and the user      *)
(* searches, filters, sorts and exports.                                   *)
(***************************************************************************)
InitTable ==
    /\ appState = "results"
    /\ parsedData \in {[comments |-> cs] :
                          cs \in SeqsUpTo(TableComments, MaxTableRows) \ {<<>>}}
    /\ analysisResults =
           BuildAnalysisResults(parsedData.comments, Dedupe(parsedData.comments),
                                Analysed(Dedupe(parsedData.comments)),
                                SelectedModelInfo("pattern-local"))
    /\ DataInputMounted
    /\ SentimentAnalysisMounted
    /\ ResultsDashboardMounted
    /\ download = null
    /\ toast = null
    /\ PureIdle

\* onChange of the search box
SetSearchTerm ==
    /\ appState = "results"
    /\ \E term \in SearchTerms : searchTerm' = term
    /\ UNCHANGED <<dataInputVars, indexVars, analysisVars, runVars, sentimentFilter,
                   sortBy, download, toast, pureVars>>

\* onValueChange of the sentiment Select
SetSentimentFilter ==
    /\ appState = "results"
    /\ \E filter \in SentimentFilters : sentimentFilter' = filter
    /\ UNCHANGED <<dataInputVars, indexVars, analysisVars, runVars, searchTerm,
                   sortBy, download, toast, pureVars>>

\* onValueChange of the sort Select
SetSortBy ==
    /\ appState = "results"
    /\ \E key \in SortKeys : sortBy' = key
    /\ UNCHANGED <<dataInputVars, indexVars, analysisVars, runVars, searchTerm,
                   sentimentFilter, download, toast, pureVars>>

\* exportToCsv: the file is built from results.results and handed to the
\* browser (its name, made from the jobId, is left out)
ExportToCsv ==
    /\ appState = "results"
    /\ download' = [content |-> CsvContent(analysisResults.results)]
    /\ toast' = Toast("success", "Results exported to CSV", 0)
    /\ UNCHANGED <<dataInputVars, indexVars, analysisVars, runVars, searchTerm,
                   sentimentFilter, sortBy, pureVars>>

NextTable ==
    \/ SetSearchTerm
    \/ SetSentimentFilter
    \/ SetSortBy
    \/ ExportToCsv
    \/ HandleNewAnalysis

SpecTable == InitTable /\ [][NextTable]_vars

(***************************************************************************)
(* WordCloudComponent on its own: rendered with a word list and a canvas   *)
(* size, then its effect runs.  argument holds the props, returned what    *)
(* the component rendered and what its effect did.                         *)
(***************************************************************************)
InitWordCloud ==
    /\ appState = "results"
    /\ parsedData = null
    /\ analysisResults = null
    /\ DataInputMounted
    /\ SentimentAnalysisMounted
    /\ ResultsDashboardMounted
    /\ download = null
    /\ toast = null
    /\ argument \in {[words |-> ws, width |-> size[1], height |-> size[2]] :
                        ws \in WordLists, size \in CanvasSizes}
    /\ returned = null

\* the component function: the placeholder for an empty list, the canvas
\* otherwise
RenderWordCloud ==
    /\ returned = null
    /\ returned' = [rendered  |-> IF EmptyWords(argument.words)
                                  THEN "placeholder" ELSE "canvas",
                    effect    |-> "pending",
                    calls     |-> <<>>,
                    options   |-> null,
                    fontSizes |-> <<>>,
                    logged    |-> FALSE]
    /\ UNCHANGED <<dataInputVars, indexVars, analysisVars, runVars, toast,
                   argument>>
    /\ UNCHANGED dashboardVars

\* the useEffect callback.  canvasRef.current is set only when the canvas
\* was rendered; getContext('2d') on a fresh canvas gives a context.  What
\* WordCloud(canvas, options) does lies in the wordcloud package: it returns
\* or it throws, and the catch block logs and draws two lines of text.
\* fontSizes are the values options.weightFactor gives for the list entries.
WordCloudEffect ==
    /\ returned # null
    /\ returned.effect = "pending"
    /\ LET words == argument.words
           sizes == [k \in DOMAIN words |-> words[k].size]
           minFontPx == MinFontPx(argument.width)
           maxFontPx == MaxFontPx(argument.width)
       IN  IF returned.rendered # "canvas" \/ EmptyWords(words)
           THEN returned' = [returned EXCEPT !.effect = "done"]
           ELSE \E threw \in BOOLEAN :
                  returned' =
                      [returned EXCEPT
                          !.effect    = "done",
                          !.calls     = IF threw
                                        THEN <<"clearRect", "WordCloud", "fillText", "fillText">>
                                        ELSE <<"clearRect", "WordCloud">>,
                          !.options   = [list     |-> [k \in DOMAIN words |->
                                                          <<words[k].text, words[k].size>>],
                                         gridSize |-> GridSize(argument.width),
                                         minSize  |-> minFontPx],
                          !.fontSizes = [k \in DOMAIN words |->
                                            WeightFactor(words[k].size, MinOf(sizes),
                                                         MaxOf(sizes), minFontPx, maxFontPx)],
                          !.logged    = threw]
    /\ UNCHANGED <<dataInputVars, indexVars, analysisVars, runVars, toast,
                   argument>>
    /\ UNCHANGED dashboardVars

NextWordCloud ==
    \/ RenderWordCloud
    \/ WordCloudEffect

SpecWordCloud == InitWordCloud /\ [][NextWordCloud]_vars

(***************************************************************************)
(* ResultsDashboard showing the results of comments drawn from             *)
(* FrequencyComments.                                                      *)
(***************************************************************************)
InitFrequency ==
    /\ appState = "results"
    /\ parsedData \in {[comments |-> cs] :
                          cs \in SeqsUpTo(FrequencyComments, MaxDashboardComments) \ {<<>>}}
    /\ analysisResults =
           BuildAnalysisResults(parsedData.comments, Dedupe(parsedData.comments),
                                Analysed(Dedupe(parsedData.comments)),
                                SelectedModelInfo("pattern-local"))
    /\ DataInputMounted
    /\ SentimentAnalysisMounted
    /\ ResultsDashboardMounted
    /\ download = null
    /\ toast = null
    /\ PureIdle

NextFrequency ==
    \/ RenderDashboard
    \/ HandleNewAnalysis

SpecFrequency == InitFrequency /\ [][NextFrequency]_vars

(***************************************************************************)
(* processTextInput on its own, applied to texts of up to MaxTextLines     *)
(* lines and to texts of one line more drawn from WarningSamples.          *)
(***************************************************************************)
ParseTexts ==
    {Join(ls, NL) : ls \in SeqsUpTo(LineSamples, MaxTextLines)
                          \cup [1..(MaxTextLines + 1) -> WarningSamples]}

InitParse ==
    /\ appState = "input"
    /\ parsedData = null
    /\ analysisResults = null
    /\ DataInputMounted
    /\ SentimentAnalysisMounted
    /\ ResultsDashboardMounted
    /\ download = null
    /\ toast = null
    /\ argument \in ParseTexts
    /\ returned = null

Parse ==
    /\ returned = null
    /\ returned' = ProcessTextInput(argument)
    /\ UNCHANGED <<dataInputVars, indexVars, analysisVars, runVars, toast,
                   argument>>
    /\ UNCHANGED dashboardVars

NextParse == Parse

SpecParse == InitParse /\ [][NextParse]_vars

(***************************************************************************)
(* analyzeSentiment on its own, applied to texts of up to MaxWords words.  *)
(***************************************************************************)
SentimentTexts == {Join(ws, " ") : ws \in SeqsUpTo(WordSamples, MaxWords)}

InitClassify ==
    /\ appState = "input"
    /\ parsedData = null
    /\ analysisResults = null
    /\ DataInputMounted
    /\ SentimentAnalysisMounted
    /\ ResultsDashboardMounted
    /\ download = null
    /\ toast = null
    /\ argument \in SentimentTexts
    /\ returned = null

Classify ==
    /\ returned = null
    /\ \E jitter \in JitterValues :
         returned' = AnalyzeSentiment(argument, jitter)
    /\ UNCHANGED <<dataInputVars, indexVars, analysisVars, runVars, toast,
                   argument>>
    /\ UNCHANGED dashboardVars

NextClassify == Classify

SpecClassify == InitClassify /\ [][NextClassify]_vars

(***************************************************************************)
(* extractKeywords on its own, applied to texts of up to MaxKeywordPieces  *)
(* pieces.                                                                 *)
(***************************************************************************)
KeywordTexts == {Join(ps, " ") : ps \in SeqsUpTo(KeywordSamples, MaxKeywordPieces)}

InitKeywords ==
    /\ appState = "input"
    /\ parsedData = null
    /\ analysisResults = null
    /\ DataInputMounted
    /\ SentimentAnalysisMounted
    /\ ResultsDashboardMounted
    /\ download = null
    /\ toast = null
    /\ argument \in KeywordTexts
    /\ returned = null

Extract ==
    /\ returned = null
    /\ returned' = [keywords |-> ExtractKeywords(argument)]
    /\ UNCHANGED <<dataInputVars, indexVars, analysisVars, runVars, toast,
                   argument>>
    /\ UNCHANGED dashboardVars

NextKeywords == Extract

SpecKeywords == InitKeywords /\ [][NextKeywords]_vars

(***************************************************************************)
(* Properties of processTextInput, checked under SpecParse.                *)
(***************************************************************************)
\* processTextInput accepted the text: it returned a batch
Accepted == returned # null /\ ~returned.threw

\* the positions of the lines of the text that are not empty once trimmed
NonEmptyLines(text) ==
    LET raw == SplitOn(text, NL)
    IN  {k \in DOMAIN raw : Trim(raw[k]) # <<>>}

\* the distinct trimmed non-empty lines of the text
DistinctLines(text) ==
    LET raw == SplitOn(text, NL)
    IN  {Trim(raw[k]) : k \in NonEmptyLines(text)}

\* C1: for every text processTextInput accepts, rawCount is the number of
\* non-empty trimmed lines, uniqueCount the number of distinct ones,
\* uniqueCount <= rawCount and duplicateCount = rawCount - uniqueCount.
C1_DuplicateCountExact ==
    Accepted =>
        /\ returned.rawCount = Cardinality(NonEmptyLines(argument))
        /\ returned.uniqueCount = Cardinality(DistinctLines(argument))
        /\ returned.uniqueCount <= returned.rawCount
        /\ returned.duplicateCount = returned.rawCount - returned.uniqueCount

\* a text with a blank line and a repeated line among several distinct ones
\* has been parsed
C1_Witness ==
    /\ Accepted
    /\ returned.duplicateCount >= 1
    /\ returned.uniqueCount >= 2
    /\ Len(SplitOn(argument, NL)) > returned.rawCount

\* C2 as stated: comments is the deduplicated sequence, so that
\* uniqueCount = length(comments) <= rawCount whatever the input repeats.
C2_CommentsDeduplicated ==
    Accepted =>
        /\ returned.uniqueCount = Len(returned.comments)
        /\ Len(returned.comments) <= returned.rawCount

\* C2 as amended: comments holds every non-empty trimmed line in input
\* order, repeated lines included, so length(comments) = rawCount; uniqueCount
\* is the number of distinct elements of comments and is <= length(comments),
\* with equality exactly when no line is repeated.
C2_CommentsKeepDuplicates ==
    Accepted =>
        /\ Len(returned.comments) = returned.rawCount
        /\ Range(returned.comments) = DistinctLines(argument)
        /\ returned.uniqueCount = Cardinality(Range(returned.comments))
        /\ returned.uniqueCount <= Len(returned.comments)
        /\ (returned.uniqueCount = Len(returned.comments)
              <=> \A j, k \in DOMAIN returned.comments :
                      returned.comments[j] = returned.comments[k] => j = k)

\* a text with a repeated line has been parsed: comments is longer than the
\* number of distinct lines
C2_Witness ==
    /\ Accepted
    /\ returned.uniqueCount < Len(returned.comments)
    /\ \E j, k \in DOMAIN returned.comments :
         j + 1 < k /\ returned.comments[j] = returned.comments[k]

(***************************************************************************)
(* Properties of analyzeSentiment, checked under SpecClassify.             *)
(***************************************************************************)
PositiveHits == LexiconHits(argument, positiveWords)

NegativeHits == LexiconHits(argument, negativeWords)

\* C4: the label follows from the lexicon hit counts: no hit gives neutral;
\* otherwise a positive share above 0.6 gives positive, below 0.4 negative,
\* and a share in [0.4, 0.6], both ends included, neutral.
C4_LabelFromHitCounts ==
    returned # null =>
        LET total == PositiveHits + NegativeHits
        IN  returned.sentiment =
                IF total = 0 THEN "neutral"
                ELSE IF 5 * PositiveHits > 3 * total THEN "positive"
                ELSE IF 5 * PositiveHits < 2 * total THEN "negative"
                ELSE "neutral"

\* a text with 3 positive and 2 negative hits (share exactly 0.6) has been
\* classified neutral
C4_Witness ==
    /\ returned # null
    /\ PositiveHits = 3
    /\ NegativeHits = 2
    /\ returned.sentiment = "neutral"

\* C5: a text whose hits, at least one, all belong to one lexicon is
\* classified with that polarity, with confidence >= 0.7.
C5_SinglePolarity ==
    returned # null =>
        /\ (PositiveHits > 0 /\ NegativeHits = 0) =>
               /\ returned.sentiment = "positive"
               /\ FracLeq(Frac(7, 10), returned.confidence)
        /\ (NegativeHits > 0 /\ PositiveHits = 0) =>
               /\ returned.sentiment = "negative"
               /\ FracLeq(Frac(7, 10), returned.confidence)

\* a text with negative hits only, next to words of neither lexicon, has
\* been classified negative
C5_Witness ==
    /\ returned # null
    /\ NegativeHits >= 2
    /\ PositiveHits = 0
    /\ Len(SentimentWords(argument)) > NegativeHits
    /\ returned.sentiment = "negative"

(***************************************************************************)
(* Properties of runAnalysis, checked under SpecMounted.                   *)
(***************************************************************************)
\* the positions at which a comment occurs for the first time
FirstOccurrences(comments) ==
    {k \in DOMAIN comments : \A j \in 1..(k - 1) : comments[j] # comments[k]}

\* the k-th distinct comment in order of first occurrence
KthDistinct(comments, k) ==
    LET first == FirstOccurrences(comments)
    IN  comments[CHOOSE n \in first : Cardinality({j \in first : j < n}) = k - 1]

InFirstOccurrenceOrder(rs, comments) ==
    /\ Len(rs) <= Cardinality(FirstOccurrences(comments))
    /\ \A k \in DOMAIN rs : rs[k].comment = KthDistinct(comments, k)

\* C3: the results of runAnalysis hold each distinct comment once, and
\* results[k].comment is the k-th distinct comment in order of first
\* occurrence, comments being distinct unless they are equal character by
\* character.
C3_FirstOccurrenceOrder ==
    /\ InFirstOccurrenceOrder(results, Comments)
    /\ analysisResults # null =>
           /\ Len(analysisResults.results) = Cardinality(Range(Comments))
           /\ InFirstOccurrenceOrder(analysisResults.results, Comments)

\* the results of a list x, y, x whose x and y differ in case only have been
\* delivered
C3_Witness ==
    /\ analysisResults # null
    /\ Len(Comments) = 3
    /\ Comments[1] = Comments[3]
    /\ Comments[1] # Comments[2]
    /\ ToLowerCase(Comments[1]) = ToLowerCase(Comments[2])
    /\ Len(analysisResults.results) = 2

AllLabelled(rs, label) == \A k \in DOMAIN rs : rs[k].sentiment = label

\* the score equals the given number of tenths
ScoreIs(score, tenths) == ~IsNaN(score) /\ score.num * 10 = tenths * score.den

\* C6: over a non-empty result set, all positive gives satisfactionScore
\* 100.0, all negative 0.0 and all neutral 50.0.
C6_UniformScores ==
    (analysisResults # null /\ Len(analysisResults.results) > 0) =>
        /\ AllLabelled(analysisResults.results, "positive") =>
               ScoreIs(analysisResults.satisfactionScore, 1000)
        /\ AllLabelled(analysisResults.results, "negative") =>
               ScoreIs(analysisResults.satisfactionScore, 0)
        /\ AllLabelled(analysisResults.results, "neutral") =>
               ScoreIs(analysisResults.satisfactionScore, 500)

\* results that are all neutral, more than one of them, have been delivered
C6_Witness ==
    /\ analysisResults # null
    /\ Len(analysisResults.results) >= 2
    /\ AllLabelled(analysisResults.results, "neutral")

Labelled(rs, label) == Cardinality({k \in DOMAIN rs : rs[k].sentiment = label})

\* C7: satisfactionScore is ((positive + 0.5 * neutral) / uniqueCount) * 100
\* rounded to one decimal place (it is a number of tenths at most 0.05 away
\* from the exact value), and lies in 0 .. 100.
C7_ScoreRounded ==
    analysisResults # null =>
        LET score    == analysisResults.satisfactionScore
            n        == analysisResults.uniqueComments
            weighted == 2 * Labelled(analysisResults.results, "positive")
                        + Labelled(analysisResults.results, "neutral")
            gap      == 2 * n * score.num - weighted * 1000
        IN  /\ score.den = 10
            /\ gap <= n
            /\ -gap <= n
            /\ 0 <= score.num
            /\ score.num <= 1000

\* a score that is not a whole number of tenths before rounding, 2 of 3
\* positive, has been delivered as 66.7
C7_Witness ==
    /\ analysisResults # null
    /\ analysisResults.uniqueComments = 3
    /\ Labelled(analysisResults.results, "positive") = 2
    /\ Labelled(analysisResults.results, "negative") = 1
    /\ analysisResults.satisfactionScore = Frac(667, 10)

\* C8: in the AnalysisResults passed to onAnalysisComplete the three
\* sentiment counts add up to length(results) = uniqueComments, and
\* duplicatesIgnored = totalComments - uniqueComments.
C8_CountsAddUp ==
    analysisResults # null =>
        /\ analysisResults.sentimentCounts.positive
             + analysisResults.sentimentCounts.negative
             + analysisResults.sentimentCounts.neutral
           = Len(analysisResults.results)
        /\ Len(analysisResults.results) = analysisResults.uniqueComments
        /\ analysisResults.duplicatesIgnored
           = analysisResults.totalComments - analysisResults.uniqueComments

\* results of a list with a repeated comment and two different labels have
\* been delivered
C8_Witness ==
    /\ analysisResults # null
    /\ analysisResults.duplicatesIgnored >= 1
    /\ analysisResults.sentimentCounts.negative >= 1
    /\ analysisResults.sentimentCounts.neutral >= 1

\* C9: with no comment to analyse no division by zero is performed: the run
\* fails with the error toast before anything is aggregated, and no summary
\* with a NaN score or average confidence is built or delivered.
C9_EmptyCorpusGuarded ==
    /\ Len(Comments) = 0 =>
           /\ pc = "idle"
           /\ ~isAnalyzing
           /\ pending = null
           /\ analysisResults = null
           /\ toast \in {null, Toast("error", "No comments to analyze", 0)}
    /\ \A summary \in {pending, analysisResults} \ {null} :
           /\ ~IsNaN(summary.satisfactionScore)
           /\ ~IsNaN(summary.averageConfidence)

\* Start Analysis has been clicked on an empty comment list
C9_Witness ==
    /\ Len(Comments) = 0
    /\ toast = Toast("error", "No comments to analyze", 0)
    /\ analysisResults = null

\* C10: onAnalysisComplete is invoked only once the loop has ended, with
\* one result for every unique comment.
C10_NoPartialResults ==
    [][(analysisResults' # analysisResults /\ analysisResults' # null) =>
           /\ pc = "completing"
           /\ i = Cardinality(Range(Comments))
           /\ Len(analysisResults'.results) = Cardinality(Range(Comments))]_vars

\* the results of three unique comments have been delivered
C10_Witness ==
    /\ analysisResults # null
    /\ appState = "results"
    /\ Len(analysisResults.results) = 3

\* the number of non-empty lines of the text that are at most three
\* characters long once trimmed or hold no whitespace
SingleTokenCount(text) ==
    LET raw == SplitOn(text, NL)
    IN  Cardinality({k \in NonEmptyLines(text) :
                        LET line == Trim(raw[k])
                        IN  \/ Len(line) <= 3
                            \/ \A j \in DOMAIN line : line[j] \notin WhiteSpace})

\* C12: singleTokenPercentage is 100 times the share of single-token lines
\* among the rawCount lines, singleTokenWarning holds exactly when that
\* share is above 40 percent, and a share of exactly 40 percent gives no
\* warning.
C12_WarningAbove40 ==
    Accepted =>
        LET count == SingleTokenCount(argument)
            pct   == returned.singleTokenPercentage
        IN  /\ pct.den # 0
            /\ pct.num * returned.rawCount = 100 * count * pct.den
            /\ returned.singleTokenWarning <=> (100 * count > 40 * returned.rawCount)
            /\ (100 * count = 40 * returned.rawCount) => ~returned.singleTokenWarning

\* two single-token lines among five lines have been parsed without a warning
C12_Witness ==
    /\ Accepted
    /\ returned.rawCount = 5
    /\ SingleTokenCount(argument) = 2
    /\ ~returned.singleTokenWarning

\* C16: every confidence analyzeSentiment returns lies in [0, 1]: a neutral
\* result has a confidence in [0.6, 0.8), a positive or negative result the
\* confidence 0.7 + 0.3 * r with r the share of the winning polarity among
\* the lexicon hits.
C16_ConfidenceInRange ==
    returned # null =>
        LET c     == returned.confidence
            total == PositiveHits + NegativeHits
        IN  /\ c.den > 0
            /\ 0 <= c.num /\ c.num <= c.den
            /\ returned.sentiment = "neutral" =>
                   6 * c.den <= 10 * c.num /\ 10 * c.num < 8 * c.den
            /\ returned.sentiment = "positive" =>
                   c.num * 10 * total = (7 * total + 3 * PositiveHits) * c.den
            /\ returned.sentiment = "negative" =>
                   c.num * 10 * total = (7 * total + 3 * NegativeHits) * c.den

\* a text with hits of both polarities has been classified negative
C16_Witness ==
    /\ returned # null
    /\ returned.sentiment = "negative"
    /\ PositiveHits >= 1
    /\ returned.confidence.num < returned.confidence.den

(***************************************************************************)
(* Properties of extractKeywords, checked under SpecKeywords.              *)
(***************************************************************************)
Extracted == returned # null

\* C13: extractKeywords returns at most five keywords, no keyword twice,
\* each longer than two characters and none of them a stop-word.
C13_KeywordsWellFormed ==
    Extracted =>
        LET ks == returned.keywords
        IN  /\ Len(ks) <= 5
            /\ \A j, k \in DOMAIN ks : j # k => ks[j] # ks[k]
            /\ \A k \in DOMAIN ks : Len(ks[k]) > 2 /\ ks[k] \notin stopWords

\* five keywords have been returned for a text with more than five distinct
\* candidate words and a stop-word
C13_Witness ==
    /\ Extracted
    /\ Len(returned.keywords) = 5
    /\ Cardinality(Range(KeywordTokens(argument))) > 5
    /\ \E w \in Range(SplitWhiteSpace(ToLowerCase(argument))) : w \in stopWords

\* the position of the first occurrence of a word in the token stream
FirstPosition(tokens, word) ==
    CHOOSE k \in DOMAIN tokens :
        tokens[k] = word /\ \A j \in 1..(k - 1) : tokens[j] # word

\* C14: the keywords come in descending order of frequency and keywords of
\* equal frequency in the order of their first occurrence in the token
\* stream, numerals such as 2024 included.
C14_TiesByFirstOccurrence ==
    Extracted =>
        LET ks     == returned.keywords
            tokens == KeywordTokens(argument)
        IN  \A j, k \in DOMAIN ks :
                j < k =>
                    \/ Occurrences(tokens, ks[j]) > Occurrences(tokens, ks[k])
                    \/ /\ Occurrences(tokens, ks[j]) = Occurrences(tokens, ks[k])
                       /\ FirstPosition(tokens, ks[j]) < FirstPosition(tokens, ks[k])

(***************************************************************************)
(* The worked example, checked under SpecPasted.                           *)
(***************************************************************************)
ExampleComments ==
    << <<"g","o","o","d">>,
       <<"b","a","d">>,
       <<"n","e","u","t","r","a","l"," ","c","o","m","m","e","n","t"," ","h","e","r","e">>,
       <<"g","o","o","d">> >>

\* C15: the lines good, bad, neutral comment here, good parse to rawCount 4,
\* uniqueCount 3 and duplicateCount 1, and their analysis delivers one
\* positive, one negative and one neutral result and satisfactionScore 50.0.
C15_WorkedExample ==
    /\ (inputParsedData # null /\ textInput = Join(ExampleComments, NL)) =>
           /\ inputParsedData.comments = ExampleComments
           /\ parsedData = inputParsedData
    /\ (parsedData # null /\ parsedData.comments = ExampleComments) =>
           /\ parsedData.rawCount = 4
           /\ parsedData.uniqueCount = 3
           /\ parsedData.duplicateCount = 1
           /\ analysisResults # null =>
                  /\ analysisResults.sentimentCounts =
                         [positive |-> 1, negative |-> 1, neutral |-> 1]
                  /\ Len(analysisResults.results) = 3
                  /\ ScoreIs(analysisResults.satisfactionScore, 500)

\* the results of the example are on display
C15_Witness ==
    /\ appState = "results"
    /\ parsedData # null
    /\ parsedData.comments = ExampleComments
    /\ analysisResults # null
    /\ ScoreIs(analysisResults.satisfactionScore, 500)

(***************************************************************************)
(* Properties of the dashboard's word list, checked under SpecDashboard.   *)
(***************************************************************************)
\* the dashboard is on display and has computed its word list
Rendered == appState = "results" /\ returned # null

\* C17: the word list handed to the word cloud holds at most 100 entries,
\* the entries of highest frequency in the frequency map, in descending
\* order of frequency, and entries of equal frequency in the order in which
\* their words were first counted, numerals included.
C17_CloudWordsByFirstSeen ==
    Rendered =>
        LET ws      == returned.wordCloudData
            counted == CountedWords(analysisResults.results)
        IN  /\ Len(ws) <= 100
            /\ \A k \in DOMAIN ws : ws[k].size = Occurrences(counted, ws[k].text)
            /\ \A w \in Range(counted) :
                   (\A k \in DOMAIN ws : ws[k].text # w) =>
                       /\ Len(ws) = 100
                       /\ \A k \in DOMAIN ws : ws[k].size >= Occurrences(counted, w)
            /\ \A j, k \in DOMAIN ws :
                   j < k =>
                       \/ ws[j].size > ws[k].size
                       \/ /\ ws[j].size = ws[k].size
                          /\ FirstPosition(counted, ws[j].text)
                                 < FirstPosition(counted, ws[k].text)

(***************************************************************************)
(* Properties of WordCloudComponent, checked under SpecWordCloud.          *)
(***************************************************************************)
\* the effect of the component has run on a rendered canvas
Drawn == returned # null /\ returned.effect = "done" /\ returned.rendered = "canvas"

\* C18: the font sizes weightFactor gives for one word list are monotonic in
\* the frequency, lie between minFontPx and maxFontPx, and are all the
\* rounded midpoint of the two when all frequencies are equal.
C18_FontSizeMonotonic ==
    Drawn =>
        LET words == argument.words
            fonts == returned.fontSizes
            lo    == MinFontPx(argument.width)
            hi    == MaxFontPx(argument.width)
        IN  /\ DOMAIN fonts = DOMAIN words
            /\ \A j, k \in DOMAIN words :
                   words[j].size > words[k].size => fonts[j] >= fonts[k]
            /\ \A k \in DOMAIN words : lo <= fonts[k] /\ fonts[k] <= hi
            /\ (\A j, k \in DOMAIN words : words[j].size = words[k].size) =>
                   \A k \in DOMAIN words :
                       2 * fonts[k] = lo + hi \/ 2 * fonts[k] = lo + hi + 1

\* a list of three words of three frequencies has been sized, the sizes
\* reaching from minFontPx to maxFontPx
C18_Witness ==
    /\ Drawn
    /\ Len(argument.words) = 3
    /\ argument.words[1].size > argument.words[2].size
    /\ argument.words[2].size > argument.words[3].size
    /\ returned.fontSizes[1] = MaxFontPx(argument.width)
    /\ returned.fontSizes[1] > returned.fontSizes[2]
    /\ returned.fontSizes[2] > returned.fontSizes[3]
    /\ returned.fontSizes[3] = MinFontPx(argument.width)

\* C20: for an empty word list the component shows its placeholder and its
\* effect does nothing: no call of the layout, nothing drawn, no error
\* logged, no word sized.
C20_EmptyListIsNoError ==
    (returned # null /\ Len(argument.words) = 0) =>
        /\ returned.rendered = "placeholder"
        /\ returned.calls = <<>>
        /\ returned.options = null
        /\ returned.fontSizes = <<>>
        /\ ~returned.logged

\* the effect has run for an empty word list
C20_Witness ==
    /\ returned # null
    /\ returned.effect = "done"
    /\ Len(argument.words) = 0
    /\ returned.calls = <<>>

\* C21: with a canvas width or height <= 0 the component is rejected before
\* any word is sized or placed: its effect sizes no word, builds no options
\* and makes no call of the layout.
C21_InvalidCanvasRejected ==
    (returned # null /\ returned.effect = "done"
        /\ (argument.width <= 0 \/ argument.height <= 0)) =>
        /\ returned.rendered # "canvas"
        /\ returned.calls = <<>>
        /\ returned.options = null
        /\ returned.fontSizes = <<>>

(***************************************************************************)
(* Properties of the dashboard's frequency map, checked under              *)
(* SpecFrequency.                                                          *)
(***************************************************************************)
\* C23: wordFrequency has one key for every token counted, and its value is
\* the number of times the token is listed among the keywords of a result
\* or occurs, longer than three characters, in a result's comment.
C23_FrequencyCountsTokens ==
    Rendered =>
        LET wf      == returned.wordFrequency
            counted == CountedWords(analysisResults.results)
        IN  /\ \A j, k \in DOMAIN wf : j # k => wf[j].key # wf[k].key
            /\ \A k \in DOMAIN wf : wf[k].key \in Range(counted)
            /\ \A w \in Range(counted) :
                   \E k \in DOMAIN wf :
                       /\ wf[k].key = w
                       /\ wf[k].value = [number |-> Occurrences(counted, w)]
                       /\ Occurrences(counted, w) >= 1

(***************************************************************************)
(* Properties of the input step, checked under Spec.                       *)
(***************************************************************************)
\* C11: a text without a non-empty trimmed line is never turned into a
\* batch: processTextInput throws on exactly those texts, and handleTextParse
\* on such a text reports an error, leaves the batch parsed before as it is
\* and does not call onDataParsed (Index keeps its parsedData).
C11_BlankTextRejected ==
    /\ [](NonEmptyLines(textInput) = {} <=> ProcessTextInput(textInput).threw)
    /\ [][HandleTextParse /\ NonEmptyLines(textInput) = {} =>
            /\ toast'.kind = "error"
            /\ inputParsedData' = inputParsedData
            /\ parsedData' = parsedData]_vars

\* a text of blank lines only has been rejected after a batch had been parsed
C11_Witness ==
    /\ appState = "input"
    /\ textInput # <<>>
    /\ NonEmptyLines(textInput) = {}
    /\ toast # null
    /\ toast.kind = "error"
    /\ inputParsedData # null
    /\ parsedData = inputParsedData

\* C22: a batch confirmed with the single-token warning shown and "Treat as
\* keywords" switched on (handleConfirm then leaves singleTokenWarning set)
\* is never classified: no run is started on it and no result is produced.
C22_KeywordsNeverClassified ==
    (appState # "input" /\ parsedData # null /\ parsedData.singleTokenWarning) =>
        /\ ~isAnalyzing
        /\ results = <<>>
        /\ pending = null
        /\ analysisResults = null

(***************************************************************************)
(* Properties of the wizard, checked under Spec.                           *)
(***************************************************************************)
\* C24: in state analysis parsedData is not null and in state results
\* analysisResults is not null; appState changes only from input to analysis
\* (handleConfirmAnalysis), from analysis to results (handleAnalysisComplete)
\* and from results to input (handleNewAnalysis), and handleNewAnalysis
\* resets parsedData and analysisResults to null.
C24_WizardStates ==
    /\ [](appState = "analysis" => parsedData # null)
    /\ [](appState = "results" => analysisResults # null)
    /\ [][appState' # appState =>
            \/ appState = "input" /\ appState' = "analysis" /\ HandleConfirm
            \/ appState = "analysis" /\ appState' = "results" /\ CompleteAnalysis
            \/ appState = "results" /\ appState' = "input" /\ HandleNewAnalysis]_vars
    /\ [][(appState = "results" /\ appState' = "input") =>
            parsedData' = null /\ analysisResults' = null]_vars

\* the wizard is back at the input step after an analysis has been shown
C24_Witness ==
    /\ appState = "input"
    /\ parsedData = null
    /\ analysisResults = null
    /\ toast # null
    /\ toast.text = "Analysis completed! Processed unique comments"

(***************************************************************************)
(* Properties of the analysis run, checked under SpecMounted.              *)
(***************************************************************************)
\* C25: at most one run of runAnalysis is in progress: while a run has not
\* delivered its results isAnalyzing is true (Start Analysis is disabled),
\* no step restarts it, and onAnalysisComplete is invoked once, by the step
\* that ends the run.
C25_SingleRun ==
    /\ [](pc # "idle" => isAnalyzing)
    /\ [][(isAnalyzing /\ isAnalyzing') =>
            /\ closure' = closure
            /\ uniqueComments' = uniqueComments
            /\ i' >= i
            /\ Len(results') >= Len(results)
            /\ analysisResults' = analysisResults]_vars
    /\ [][analysisResults' # analysisResults =>
            /\ analysisResults = null
            /\ isAnalyzing /\ ~isAnalyzing'
            /\ pc = "completing" /\ pc' = "idle"]_vars

\* a run over two unique comments has ended its loop and waits for the timer
\* that delivers its results
C25_Witness ==
    /\ pc = "completing"
    /\ isAnalyzing
    /\ Len(results) = 2
    /\ analysisResults = null

\* C26: with the timers firing, a run on a non-empty list terminates: its
\* progress never decreases and is 100 when the loop has ended, and a run in
\* progress leads to the results being delivered, the wizard being in
\* 'results' and isAnalyzing being false again.
C26_RunTerminates ==
    /\ [][(isAnalyzing /\ isAnalyzing') => FracLeq(progress, progress')]_vars
    /\ [](pc = "completing" => progress = Frac(100, 1))
    /\ (isAnalyzing ~>
          (appState = "results" /\ analysisResults # null /\ ~isAnalyzing))

\* a run over three unique comments is two thirds through its loop
C26_Witness ==
    /\ isAnalyzing
    /\ pc = "sleeping"
    /\ Len(uniqueComments) = 3
    /\ progress = Frac(200, 3)

\* C28: modelUsed of the delivered results is the name of the option selected
\* when the run started: the run keeps the option found at its start, which is
\* the Cloud API option exactly when cloud-api was selected then, and delivers
\* 'Cloud API' for it and 'Unknown' when no option was found.
C28_ModelUsedAtStart ==
    /\ [][(~isAnalyzing /\ isAnalyzing') =>
            (closure'.selectedModelInfo # undefined <=> selectedModel = "cloud-api")]_vars
    /\ [][(isAnalyzing /\ isAnalyzing') =>
            closure'.selectedModelInfo = closure.selectedModelInfo]_vars
    /\ [][(analysisResults' # analysisResults /\ analysisResults' # null) =>
            analysisResults'.modelUsed =
                IF closure.selectedModelInfo = undefined THEN "Unknown" ELSE "Cloud API"]_vars

\* the Cloud API card was clicked during a run started on the initial
\* selection, and the results built are marked 'Unknown'
C28_Witness ==
    /\ pc = "completing"
    /\ selectedModel = "cloud-api"
    /\ closure.selectedModelInfo = undefined
    /\ pending.modelUsed = "Unknown"

(***************************************************************************)
(* Properties of the table of ResultsDashboard, checked under SpecTable.   *)
(***************************************************************************)
\* the rows of the table in the current state
TableRows ==
    SortedResults(analysisResults.results, searchTerm, sentimentFilter, sortBy)

\* the lines of the exported file
CsvLines == SplitOn(download.content, NL)

\* what the line of a result begins with in the exported file: its ID and
\* its quoted text
CsvLineStart(id, comment) ==
    Numeral(id) \o <<",">> \o Quoted(DoubleQuotes(comment)) \o <<",">>

\* C27: searching, filtering and sorting leave results.results as it is; the
\* rows shown are distinct results of it, the ID shown in a row is the
\* 1-based place of that row's result in results.results, and the exported
\* file gives the same ID to that result.
C27_TableIdsAligned ==
    /\ [][(appState = "results" /\ appState' = "results") =>
            analysisResults' = analysisResults]_vars
    /\ [](appState = "results" =>
            LET rs   == analysisResults.results
                rows == TableRows
            IN  /\ \A r \in DOMAIN rows :
                     LET id == TableId(rs, rows, r)
                     IN  /\ id \in DOMAIN rs
                         /\ rs[id] = rows[r].value
                         /\ download # null =>
                              LET line  == CsvLines[id + 1]
                                  start == CsvLineStart(id, rows[r].value.comment)
                              IN  SubSeq(line, 1, Len(start)) = start
                /\ \A r, q \in DOMAIN rows :
                     TableId(rs, rows, r) = TableId(rs, rows, q) => r = q)

\* three results are shown sorted by length, which puts the last of them
\* first, and the file has been exported
C27_Witness ==
    /\ appState = "results"
    /\ download # null
    /\ sortBy = "length"
    /\ Len(TableRows) = 3
    /\ TableId(analysisResults.results, TableRows, 1) = 3

=============================================================================
